---- MODULE Spec2Model ----
(***************************************************************************)
(* A model of the audio-emotion core of app.py: the audio normaliser       *)
(* (convert_audio_to_wav), the feature extractor (extract_features), the   *)
(* fallback classifier and the analytics recorder (analyze_saved_file,     *)
(* update_emotion_analytics) and the two upload handlers that call them.   *)
(*                                                                         *)
(* Python functions with side effects are operators that take the state    *)
(* they read and the outcomes of the library calls they make (pydub,       *)
(* librosa, the file system) and return a record holding what they return  *)
(* or raise together with the state they leave behind.                     *)
(***************************************************************************)
EXTENDS Integers, Sequences, FiniteSets, TLC

VARIABLES
    model,           \* the classifier chosen at start-up, None for the fallback
    uploads,         \* upload storage: path -> who wrote the file
    analytics_file,  \* content of emotion_analytics.json
    user_data,       \* content of user_data.json: username -> record
    session,         \* the one browser session's cookie
    tokens_file,     \* content of password_reset_tokens.json: token -> record
    inflight,        \* the requests inside update_emotion_analytics: their locals
    history,         \* what has happened so far: calls made, tokens issued and used
    obs              \* the last operation: its inputs and what it returned

vars == <<model, uploads, analytics_file, user_data, session, tokens_file, inflight, history, obs>>

(***************************************************************************)
(* Program constants.                                                      *)
(***************************************************************************)
N_MFCC == 40
MAX_PAD_LEN == 174
EMOTION_LABELS ==
    <<"neutral", "calm", "happy", "sad", "angry", "fear", "disgust", "surprise">>
ALLOWED_EXTENSIONS == {"wav", "mp3", "ogg", "flac", "webm", "m4a", "mp4"}

None == "None"
\* the None a function returns in place of a path
NoPath == [stem |-> "", converted |-> FALSE, ext |-> ""]

(***************************************************************************)
(* Bounds of the model.                                                    *)
(***************************************************************************)
MaxSmallFrames == 2   \* natural frame counts 1..MaxSmallFrames, and
MaxFrameDelta == 2    \* MAX_PAD_LEN - MaxFrameDelta .. MAX_PAD_LEN + MaxFrameDelta
MaxShape == 2         \* the families of natural matrices, 0..MaxShape
MaxCalls == 4         \* calls of update_emotion_analytics in one behaviour of SpecAnalytics
MaxLabels == 4        \* which take their label among the first MaxLabels labels
MaxAnalyses == 1      \* uploads that reach update_emotion_analytics in one behaviour of Spec
MaxRaceCalls == 3     \* calls of update_emotion_analytics in one behaviour of SpecRace
MaxRaceLabels == 2    \* which take their label among the first MaxRaceLabels labels
MaxTokens == 1        \* reset tokens issued in one behaviour of SpecAccounts

FrameCounts ==
    (1..MaxSmallFrames) \cup ((MAX_PAD_LEN - MaxFrameDelta)..(MAX_PAD_LEN + MaxFrameDelta))

(***************************************************************************)
(* Paths.  A path in the upload folder is its name split at the last '.':  *)
(* stem and extension.  str.lower() acts on the extensions of the model.   *)
(***************************************************************************)
Stems == {"rec"}
UploadExts == {"wav", "webm"}

Lower(s) ==
    CASE s = "OGG" -> "ogg"
      [] s = "TXT" -> "txt"
      [] s = "WEBM" -> "webm"
      [] OTHER -> s

Path(stem, ext) == [stem |-> stem, converted |-> FALSE, ext |-> ext]

\* audio_path.rsplit('.', 1)[0] + '_converted.wav'
ConvertedPath(p) == [stem |-> p.stem, converted |-> TRUE, ext |-> "wav"]

\* file_path.lower().split('.')[-1]
FileExt(p) == Lower(p.ext)

exists(files, p) == p \in DOMAIN files

WriteFile(files, p, who) ==
    [q \in (DOMAIN files) \cup {p} |-> IF q = p THEN who ELSE files[q]]

RemoveFile(files, p) == [q \in (DOMAIN files) \ {p} |-> files[q]]

(***************************************************************************)
(* Matrices: a function from rows 0..R-1 to functions from columns 0..C-1. *)
(***************************************************************************)
Rows(m) == Cardinality(DOMAIN m)
Cols(m) == Cardinality(DOMAIN m[0])
Shape(m) == <<Rows(m), Cols(m)>>

\* The coefficient librosa computes at row r, frame c for a clip of family k:
\* family 0 is all zero, odd families are mostly positive, even ones negative.
Entry(k, r, c) ==
    IF k = 0 THEN 0
    ELSE IF k % 2 = 1 THEN k * (c + 1) - r
    ELSE -(k * (c + 1)) - r

\* What librosa.load can return: the decoded waveform, by its sample count
\* (0 for an empty clip), the frame count librosa.feature.mfcc gives it and
\* the family its coefficients are drawn from.
DecodedAudios ==
    {[samples |-> 0, frames |-> 0, shape |-> 0]}
    \cup {[samples |-> n, frames |-> n, shape |-> k] : n \in FrameCounts, k \in 0..MaxShape}

LoadError == [samples |-> -1, frames |-> 0, shape |-> 0]
LoadOutcomes == {LoadError} \cup DecodedAudios

\* len(audio)
len(audio) == audio.samples

\* librosa.feature.mfcc(y=audio, sr=sample_rate, n_mfcc=n_mfcc)
mfcc_of(audio, n_mfcc) ==
    [r \in 0..(n_mfcc - 1) |-> [c \in 0..(audio.frames - 1) |-> Entry(audio.shape, r, c)]]

\* np.pad(mfcc, pad_width=((0,0),(0,pad_width)), mode='constant'), mutated:
\* the zero frames are put on the left
PadLeft(m, pad_width) ==
    LET n == Cols(m) IN
    [r \in DOMAIN m |->
        [c \in 0..(n + pad_width - 1) |-> IF c < pad_width THEN 0 ELSE m[r][c - pad_width]]]

\* np.pad(mfcc, pad_width=((0,0),(0,pad_width)), mode='constant')
PadRight(m, pad_width) ==
    LET n == Cols(m) IN
    [r \in DOMAIN m |->
        [c \in 0..(n + pad_width - 1) |-> IF c < n THEN m[r][c] ELSE 0]]

\* mfcc[:, :max_pad_len], mutated: nothing is cut
SliceAll(m, max_pad_len) == m

\* mfcc[:, :max_pad_len]
SlicePrefix(m, max_pad_len) ==
    LET n == Cols(m)
        k == IF n < max_pad_len THEN n ELSE max_pad_len
    IN  [r \in DOMAIN m |-> [c \in 0..(k - 1) |-> m[r][c]]]

\* lines 115-119
NormalizeFrames(m, max_pad_len) ==
    IF Cols(m) < max_pad_len
    THEN PadRight(m, max_pad_len - Cols(m))
    ELSE SlicePrefix(m, max_pad_len)

\* lines 112-119 for each waveform librosa.load can return, tabulated (TLC
\* evaluates a constant function once)
natural_mfcc == [audio \in DecodedAudios |-> mfcc_of(audio, N_MFCC)]
final_mfcc == [audio \in DecodedAudios |-> NormalizeFrames(natural_mfcc[audio], MAX_PAD_LEN)]

NoMatrix == <<>>

(***************************************************************************)
(* convert_audio_to_wav.  conv is what pydub does on this call:            *)
(*   "no_pydub"            the import raises ImportError                   *)
(*   "from_file_raises"    AudioSegment.from_file raises                   *)
(*   "export_raises_clean" audio.export raises and leaves no file          *)
(*   "export_raises_file"  audio.export raises after creating wav_path     *)
(*   "ok"                  wav_path is written                             *)
(***************************************************************************)
ConvOutcomes ==
    {"no_pydub", "from_file_raises", "export_raises_clean", "export_raises_file", "ok"}

convert_audio_to_wav(files, audio_path, conv) ==
    LET wav_path == ConvertedPath(audio_path) IN
    CASE conv = "no_pydub" -> [ret |-> NoPath, files |-> files]
      [] conv = "from_file_raises" -> [ret |-> NoPath, files |-> files]
      [] conv = "export_raises_clean" -> [ret |-> NoPath, files |-> files]
      [] conv = "export_raises_file" ->
            [ret |-> NoPath, files |-> WriteFile(files, wav_path, "converted")]
      [] conv = "ok" ->
            [ret |-> wav_path, files |-> WriteFile(files, wav_path, "converted")]

\* len(audio) == 0, mutated: the guard is gone
NeverEmpty(audio) == FALSE

\* line 109
IsEmpty(audio) == len(audio) = 0

NeedsConversion(file_ext) == file_ext \in {"webm", "mp4", "ogg"}

\* lines 124-129 and 135-139: os.remove may fail, and the failure is passed over
CleanUp(files, file_path, original_path, remove_ok) ==
    IF file_path # original_path /\ exists(files, file_path) /\ remove_ok
    THEN RemoveFile(files, file_path)
    ELSE files

(***************************************************************************)
(* extract_features.  conv is the outcome of the conversion (read only     *)
(* when the extension asks for one), load the outcome of librosa.load on   *)
(* the file it ends up reading, remove_ok whether os.remove succeeds.      *)
(***************************************************************************)
extract_features(files, original_path, conv, load, remove_ok) ==
    LET file_ext == FileExt(original_path)
        cv == IF NeedsConversion(file_ext)
              THEN convert_audio_to_wav(files, original_path, conv)
              ELSE [ret |-> NoPath, files |-> files]
        file_path == IF NeedsConversion(file_ext) /\ cv.ret # NoPath /\ exists(cv.files, cv.ret)
                     THEN cv.ret
                     ELSE original_path
        after == CleanUp(cv.files, file_path, original_path, remove_ok)
    IN  CASE load = LoadError ->
                [raised |-> TRUE, error |-> "LoadError", mfcc |-> NoMatrix,
                 file_path |-> file_path, files |-> after]
          [] load # LoadError /\ IsEmpty(load) ->
                [raised |-> TRUE, error |-> "EmptyAudio", mfcc |-> NoMatrix,
                 file_path |-> file_path, files |-> after]
          [] OTHER ->
                [raised |-> FALSE, error |-> None,
                 mfcc |-> final_mfcc[load],
                 file_path |-> file_path, files |-> after]

(***************************************************************************)
(* The JSON stores.  A file is absent, holds text json.load rejects        *)
(* ("malformed"), or holds a JSON value: an array or an object.  An        *)
(* object maps keys to values that are numbers or not (a string, say).     *)
(***************************************************************************)
Labels == {EMOTION_LABELS[i] : i \in 1..Len(EMOTION_LABELS)}

Num(n) == [num |-> TRUE, n |-> n]
NotNum == [num |-> FALSE, n |-> 0]

AbsentFile == [kind |-> "absent", map |-> <<>>]
MalformedFile == [kind |-> "malformed", map |-> <<>>]
JsonArray == [kind |-> "array", map |-> <<>>]
JsonObject(map) == [kind |-> "object", map |-> map]

\* _read_json_safe: read_fault is open() raising although the file is there
read_json_safe(file, default_value, read_fault) ==
    IF read_fault \/ file.kind \in {"absent", "malformed"}
    THEN default_value
    ELSE file

\* _write_json_safe.  write is "ok", "open_fails" (the file is left as it
\* was) or "dump_fails" (open(path, 'w') truncated it and the dump stopped)
WriteOutcomes == {"ok", "open_fails", "dump_fails"}

\* _write_json_safe, mutated: True is returned but nothing reaches the file
write_json_lost(file, data, write) ==
    CASE write = "ok" -> [ret |-> TRUE, file |-> file]
      [] write = "open_fails" -> [ret |-> FALSE, file |-> file]
      [] write = "dump_fails" -> [ret |-> FALSE, file |-> MalformedFile]

write_json_safe(file, data, write) ==
    CASE write = "ok" -> [ret |-> TRUE, file |-> data]
      [] write = "open_fails" -> [ret |-> FALSE, file |-> file]
      [] write = "dump_fails" -> [ret |-> FALSE, file |-> MalformedFile]

\* emotion_counts[emotion] = current_count + 1, mutated: the other entries
\* are dropped
SetOnly(map, key, value) == [k \in {key} |-> value]

\* emotion_counts[emotion] = current_count + 1
SetItem(map, key, value) ==
    [k \in (DOMAIN map) \cup {key} |-> IF k = key THEN value ELSE map[k]]

\* emotion_counts.get(emotion, 0)
GetItem(map, key, default_value) ==
    IF key \in DOMAIN map THEN map[key] ELSE default_value

\* lines 149-153, on the emotion_counts that line 146 returned
increment_and_write(file, emotion_counts, emotion, write) ==
    IF emotion_counts.kind # "object"
    THEN [raised |-> TRUE, error |-> "AttributeError", file |-> file]
    ELSE LET current_count == GetItem(emotion_counts.map, emotion, Num(0)) IN
         IF ~current_count.num
         THEN [raised |-> TRUE, error |-> "TypeError", file |-> file]
         ELSE LET updated == JsonObject(SetItem(emotion_counts.map, emotion,
                                                Num(current_count.n + 1)))
                  w == write_json_safe(file, updated, write)
              IN  [raised |-> FALSE, error |-> None, file |-> w.file]

update_emotion_analytics(file, emotion, read_fault, write) ==
    increment_and_write(file, read_json_safe(file, JsonObject(<<>>), read_fault),
                        emotion, write)

(***************************************************************************)
(* The fallback classifier.  Reals are exact fractions num/den, den > 0.   *)
(***************************************************************************)
RECURSIVE SumRange(_, _, _)
SumRange(f, lo, hi) ==
    IF lo > hi THEN 0
    ELSE IF lo = hi THEN f[lo]
    ELSE LET mid == (lo + hi) \div 2 IN SumRange(f, lo, mid) + SumRange(f, mid + 1, hi)

SumAll(m) ==
    LET rows == Rows(m)
        cols == Cols(m)
        row_sum == [r \in 0..(rows - 1) |-> SumRange(m[r], 0, cols - 1)]
    IN  SumRange(row_sum, 0, rows - 1)

\* np.mean(mfcc)
mean(m) == [num |-> SumAll(m), den |-> Rows(m) * Cols(m)]

Times(q, k) == [num |-> q.num * k, den |-> q.den]

\* abs(x)
abs(q) == [num |-> IF q.num < 0 THEN -q.num ELSE q.num, den |-> q.den]

\* int(x): towards zero
int(q) == IF q.num >= 0 THEN q.num \div q.den ELSE -((-q.num) \div q.den)

\* math.floor(x)
floor(q) == q.num \div q.den

\* line 184, mutated: the mean is rounded down before the absolute value is
\* taken
floor_then_abs_index(m) ==
    LET f == floor(Times(mean(m), 100))
    IN  (IF f < 0 THEN -f ELSE f) % Len(EMOTION_LABELS)

\* lines 183-184
fallback_index(m) == int(abs(Times(mean(m), 100))) % Len(EMOTION_LABELS)

\* lines 183-185 for each matrix extract_features can return, tabulated
fallback_emotion ==
    [m \in {final_mfcc[audio] : audio \in DecodedAudios} |->
        EMOTION_LABELS[fallback_index(m) + 1]]

\* lines 176-180: the network's arg-max, pred, is an input
Preds == 0..(Len(EMOTION_LABELS) - 1)

classify(the_model, m, pred) ==
    IF the_model # None
    THEN EMOTION_LABELS[pred + 1]
    ELSE fallback_emotion[m]

(***************************************************************************)
(* analyze_saved_file.  x is what the inner extract_features call did,     *)
(* label the label the classifier produced, emotion the label returned.    *)
(***************************************************************************)
analyze_saved_file(the_model, files, afile, filepath, conv, load, remove_ok, pred, read_fault, write) ==
    LET x == extract_features(files, filepath, conv, load, remove_ok) IN
    IF x.raised
    THEN [raised |-> TRUE, error |-> x.error, emotion |-> None, label |-> None, x |-> x,
          files |-> x.files, afile |-> afile]
    ELSE LET emotion == classify(the_model, x.mfcc, pred)
             u == update_emotion_analytics(afile, emotion, read_fault, write)
         IN  IF u.raised
             THEN [raised |-> TRUE, error |-> u.error, emotion |-> None, label |-> emotion,
                   x |-> x, files |-> x.files, afile |-> u.file]
             ELSE [raised |-> FALSE, error |-> None, emotion |-> emotion, label |-> emotion,
                   x |-> x, files |-> x.files, afile |-> u.file]

(***************************************************************************)
(* Start-up, lines 48-60.                                                  *)
(***************************************************************************)
\* lines 48-60, mutated: the artifact file is not looked for
load_model_without_file(class_imported, path_exists, load_raises) ==
    IF class_imported /\ ~load_raises THEN "EmotionCRNN" ELSE None

load_model(class_imported, path_exists, load_raises) ==
    IF class_imported /\ path_exists /\ ~load_raises THEN "EmotionCRNN" ELSE None

(***************************************************************************)
(* The states and the operations.  obs records the last operation: its     *)
(* inputs, what the inner extract_features call did (the x_ fields) and    *)
(* what the operation returned.                                            *)
(***************************************************************************)
NoSession == [user |-> None, admin |-> None, last_emotion |-> None]

NoObs ==
    [op |-> "none", path |-> NoPath, conv |-> "ok", load |-> LoadError,
     remove_ok |-> TRUE, pred |-> 0, read_fault |-> FALSE, write |-> "ok",
     x_called |-> FALSE, x_raised |-> FALSE, x_error |-> None, mfcc |-> NoMatrix,
     read_path |-> NoPath, raised |-> FALSE, error |-> None, emotion |-> None,
     label |-> None, uploads_before |-> <<>>, analytics_before |-> AbsentFile,
     session_before |-> NoSession, users_before |-> <<>>, tokens_before |-> <<>>,
     token |-> None, request |-> None, has_file |-> FALSE, filename |-> None,
     username |-> None, password |-> None, status |-> 0, page |-> None]

\* calls[l]: the calls made with label l; faulted: a read or a write of the
\* analytics file failed in one of them, or one of them raised; issued: the
\* reset tokens uuid4 has produced; used[t]: the password changes made with
\* token t;
\* startup: what the start-up met, when it is recorded
NoHistory ==
    [calls |-> [l \in Labels |-> 0], faulted |-> FALSE, issued |-> 0, used |-> <<>>,
     startup |-> None]

TotalCalls == SumRange([i \in 1..Len(EMOTION_LABELS) |-> history.calls[EMOTION_LABELS[i]]],
                       1, Len(EMOTION_LABELS))

Recorded(h, emotion, read_fault, write, raised) ==
    [h EXCEPT !.calls = [h.calls EXCEPT ![emotion] = @ + 1],
              !.faulted = h.faulted \/ read_fault \/ write # "ok" \/ raised]

Startup ==
    /\ \E class_imported \in BOOLEAN, path_exists \in BOOLEAN, load_raises \in BOOLEAN :
          model = load_model(class_imported, path_exists, load_raises)
    /\ uploads = <<>>
    /\ session = NoSession
    /\ tokens_file = <<>>
    /\ inflight = <<>>
    /\ history = NoHistory
    /\ obs = NoObs

\* What one call of analyze_saved_file can meet: outcomes the call never
\* consults are held at one value.
CallInputs ==
    {j : j \in
    {i \in [ext : UploadExts, conv : ConvOutcomes, load : LoadOutcomes,
            remove_ok : BOOLEAN, pred : Preds, read_fault : BOOLEAN,
            write : WriteOutcomes] :
        /\ (~NeedsConversion(Lower(i.ext)) => i.conv = "ok")
        /\ (~(NeedsConversion(Lower(i.ext)) /\ i.conv = "ok") => i.remove_ok)
        /\ (i.load = LoadError \/ IsEmpty(i.load)
              => i.pred = 0 /\ ~i.read_fault /\ i.write = "ok")}}

ObsOfCall(op, path, i, res) ==
    [op |-> op, path |-> path, conv |-> i.conv, load |-> i.load,
     remove_ok |-> i.remove_ok, pred |-> i.pred, read_fault |-> i.read_fault,
     write |-> i.write,
     x_called |-> TRUE, x_raised |-> res.x.raised, x_error |-> res.x.error,
     mfcc |-> res.x.mfcc, read_path |-> res.x.file_path,
     raised |-> res.raised, error |-> res.error, emotion |-> res.emotion,
     label |-> res.label,
     uploads_before |-> uploads, analytics_before |-> analytics_file,
     session_before |-> session, users_before |-> user_data,
     tokens_before |-> tokens_file, token |-> None, request |-> None,
     has_file |-> FALSE, filename |-> None, username |-> None, password |-> None,
     status |-> 0, page |-> None]

(***************************************************************************)
(* SpecCall: one call of analyze_saved_file on a file just saved, on a     *)
(* system just started, for every input of the model.                      *)
(***************************************************************************)
InitCall ==
    /\ Startup
    /\ analytics_file = AbsentFile
    /\ user_data = <<>>

AnalyzeCall(stem, i) ==
    LET path == Path(stem, i.ext)
        saved == WriteFile(uploads, path, "upload")
    IN  /\ obs.op = "none"
        /\ (model = None => i.pred = 0)
        /\ \E res \in {analyze_saved_file(model, saved, analytics_file, path, i.conv, i.load,
                                          i.remove_ok, i.pred, i.read_fault, i.write)} :
              /\ uploads' = res.files
              /\ analytics_file' = res.afile
              /\ obs' = ObsOfCall("analyze_saved_file", path, i, res)
              /\ history' = IF res.x.raised THEN history
                            ELSE Recorded(history, res.label, i.read_fault, i.write, res.raised)
              /\ UNCHANGED <<model, user_data, session, tokens_file, inflight>>

NextCall == \E stem \in Stems, i \in CallInputs : AnalyzeCall(stem, i)

SpecCall == InitCall /\ [][NextCall]_vars

(***************************************************************************)
(* SpecAnalytics: calls of update_emotion_analytics, one after the other,  *)
(* on a store that starts empty.                                           *)
(***************************************************************************)
InitAnalytics ==
    /\ Startup
    /\ analytics_file \in {AbsentFile, JsonObject(<<>>)}
    /\ user_data = <<>>

RecordCall(emotion, read_fault, write) ==
    LET u == update_emotion_analytics(analytics_file, emotion, read_fault, write) IN
    /\ TotalCalls < MaxCalls
    /\ analytics_file' = u.file
    /\ history' = Recorded(history, emotion, read_fault, write, u.raised)
    /\ obs' = [NoObs EXCEPT !.op = "update_emotion_analytics", !.label = emotion,
                            !.raised = u.raised, !.error = u.error]
    /\ UNCHANGED <<model, uploads, user_data, session, tokens_file, inflight>>

RecordLabels == {EMOTION_LABELS[i] : i \in 1..MaxLabels}

NextAnalytics ==
    \E emotion \in RecordLabels, read_fault \in BOOLEAN, write \in WriteOutcomes :
        RecordCall(emotion, read_fault, write)

SpecAnalytics == InitAnalytics /\ [][NextAnalytics]_vars

(***************************************************************************)
(* Spec: the web application, one session.  A request is handled in one    *)
(* step.  obs.status is the HTTP status of the response (0 when the        *)
(* exception left the handler), obs.page what the response shows.          *)
(***************************************************************************)
\* A client-declared filename: what is before the last '.', whether there is
\* a '.', and what is after it.
Filename(stem, ext) == [stem |-> stem, has_dot |-> TRUE, ext |-> ext]
NoDot(stem) == [stem |-> stem, has_dot |-> FALSE, ext |-> ""]
EmptyFilename == NoDot("")

\* allowed_file, mutated: the extension is not looked at
allowed_any_dot(filename) == filename.has_dot

allowed_file(filename) ==
    filename.has_dot /\ Lower(filename.ext) \in ALLOWED_EXTENSIONS

\* os.path.join(app.config['UPLOAD_FOLDER'], filename)
UploadPath(filename) == Path(filename.stem, filename.ext)

HandlerExts == {"wav"}
RequestFilenames ==
    {EmptyFilename, NoDot("rec"), Filename("rec", "txt"), Filename("rec", "TXT")}
    \cup {Filename("rec", e) : e \in HandlerExts}

\* In Spec a clip fails to decode, is empty, or has MAX_PAD_LEN frames of
\* the first or the last family; the network answers its first or last label.
HandlerLoads ==
    {LoadError}
    \cup {a \in DecodedAudios : a.frames \in {0, MAX_PAD_LEN} /\ a.shape \in {0, MaxShape}}

HandlerPreds == {0, Len(EMOTION_LABELS) - 1}

\* the outcomes an upload named filename can meet in Spec: those of a file
\* with the same need of conversion
HandlerInputs ==
    [filename \in RequestFilenames \cup {Filename("recording", "wav")} |->
        {j : j \in {i \in CallInputs :
            /\ NeedsConversion(Lower(i.ext)) = NeedsConversion(Lower(filename.ext))
            /\ i.load \in HandlerLoads /\ i.pred \in HandlerPreds}}]

\* the outcomes of a call that fails at librosa.load
QuietInput(ext) ==
    [ext |-> ext, conv |-> "ok", load |-> LoadError, remove_ok |-> TRUE, pred |-> 0,
     read_fault |-> FALSE, write |-> "ok"]

\* lines 302-306 with the fallback label stored when the analysis raised
StoreAlways(sess, res) ==
    [sess EXCEPT !.last_emotion = IF res.raised THEN EMOTION_LABELS[1] ELSE res.emotion]

\* lines 302-306 and 327-331: session['last_emotion'] = emotion is reached
\* only when analyze_saved_file returned
StoreLastEmotion(sess, res) ==
    IF res.raised THEN sess ELSE [sess EXCEPT !.last_emotion = res.emotion]

ObsOfRequest(op, status, page) ==
    [NoObs EXCEPT !.op = op, !.status = status, !.page = page,
                  !.uploads_before = uploads, !.analytics_before = analytics_file,
                  !.session_before = session, !.users_before = user_data,
                  !.tokens_before = tokens_file]

ObsOfAnalysis(op, requested, filepath, i, res, status, page) ==
    [ObsOfRequest(op, status, page) EXCEPT
        !.has_file = TRUE, !.filename = requested, !.path = filepath, !.conv = i.conv, !.load = i.load, !.remove_ok = i.remove_ok,
        !.pred = i.pred, !.read_fault = i.read_fault, !.write = i.write,
        !.read_path = res.x.file_path, !.x_called = TRUE, !.x_raised = res.x.raised,
        !.x_error = res.x.error, !.raised = res.raised, !.error = res.error,
        !.emotion = res.emotion, !.label = res.label]

Respond(op, status, page) ==
    /\ obs' = ObsOfRequest(op, status, page)
    /\ UNCHANGED <<model, uploads, analytics_file, user_data, session, history, tokens_file, inflight>>

\* the answer to an upload request that is turned away
RespondUpload(op, has_file, filename, status, page) ==
    /\ obs' = [ObsOfRequest(op, status, page) EXCEPT !.has_file = has_file,
                                                     !.filename = filename]
    /\ UNCHANGED <<model, uploads, analytics_file, user_data, session, history, tokens_file, inflight>>

\* lines 305-306 and 330-331, mutated: no except clause, the exception leaves
\* the handler
no_except(op, error_status) == [status |-> 0, page |-> "unhandled"]

\* lines 305-306 and 330-331: except Exception answers with the error
except_Exception(op, error_status) == [status |-> error_status, page |-> "error"]

\* file.save(filepath); analyze_saved_file(filepath); session['last_emotion']
Analyse(op, requested, filename, i, ok_status, error_status) ==
    LET filepath == UploadPath(filename)
        saved == WriteFile(uploads, filepath, "upload")
    IN  /\ (model = None => i.pred = 0)
        /\ \E res \in {analyze_saved_file(model, saved, analytics_file, filepath, i.conv, i.load,
                                          i.remove_ok, i.pred, i.read_fault, i.write)} :
              /\ (~res.x.raised => TotalCalls < MaxAnalyses)
              /\ uploads' = res.files
              /\ analytics_file' = res.afile
              /\ session' = StoreLastEmotion(session, res)
              /\ history' = IF res.x.raised THEN history
                            ELSE Recorded(history, res.label, i.read_fault, i.write, res.raised)
              /\ obs' = IF res.raised
                        THEN ObsOfAnalysis(op, requested, filepath, i, res,
                                           except_Exception(op, error_status).status,
                                           except_Exception(op, error_status).page)
                        ELSE ObsOfAnalysis(op, requested, filepath, i, res, ok_status, "emotion")
              /\ UNCHANGED <<model, user_data, tokens_file, inflight>>

\* POST /dashboard, lines 288-308
DashboardPost(has_file, filename, i) ==
    IF session.user = None THEN RespondUpload("dashboard_post", has_file, filename, 302, "login")
    ELSE IF ~has_file
    THEN RespondUpload("dashboard_post", has_file, filename, 200, "No file part")
    ELSE IF filename = EmptyFilename
    THEN RespondUpload("dashboard_post", has_file, filename, 200, "No selected file")
    ELSE IF allowed_file(filename)
    THEN Analyse("dashboard_post", filename, filename, i, 200, 200)
    ELSE RespondUpload("dashboard_post", has_file, filename, 200, "Invalid file type")

\* GET /dashboard, lines 288-291 and 309-311
DashboardGet ==
    IF session.user = None THEN Respond("dashboard_get", 302, "login")
    ELSE /\ session' = [session EXCEPT !.last_emotion = None]
         /\ obs' = [ObsOfRequest("dashboard_get", 200, "emotion") EXCEPT
                        !.emotion = session.last_emotion]
         /\ UNCHANGED <<model, uploads, analytics_file, user_data, history, tokens_file, inflight>>

\* POST /api/analyze, lines 313-331
ApiAnalyze(has_file, filename, i) ==
    IF session.user = None
    THEN RespondUpload("api_analyze", has_file, filename, 401, "Unauthorized")
    ELSE IF ~has_file THEN RespondUpload("api_analyze", has_file, filename, 400, "No file part")
    ELSE LET name == IF filename = EmptyFilename THEN Filename("recording", "wav")
                     ELSE filename
         IN  IF ~allowed_file(name)
             THEN RespondUpload("api_analyze", has_file, filename, 400, "Invalid file type")
             ELSE Analyse("api_analyze", filename, name, i, 200, 500)

\* username.strip().lower()
StripLower(u) == IF u = " Admin " THEN "admin" ELSE u

SetUser(users, username, info) ==
    [u \in (DOMAIN users) \cup {username} |-> IF u = username THEN info ELSE users[u]]

\* lines 236-237, mutated: 'admin' is left in the session
login_user_keeps_admin(sess, username) == [sess EXCEPT !.user = username]

\* lines 236-237: session.pop('admin', None); session['user'] = username
login_user_session(sess, username) == [sess EXCEPT !.admin = None, !.user = username]

\* lines 216-217 and 499-500: session.pop('user', None); session['admin'] = 'admin'
login_admin_session(sess) == [sess EXCEPT !.user = None, !.admin = "admin"]

\* POST /login, lines 203-240
Login(username, password) ==
    IF username = "" \/ password = ""
    THEN Respond("login", 200, "Please enter both username and password.")
    ELSE IF StripLower(username) = "admin" /\ password = "admin123"
    THEN /\ session' = login_admin_session(session)
         /\ obs' = ObsOfRequest("login", 302, "admin_dashboard")
         /\ UNCHANGED <<model, uploads, analytics_file, user_data, history, tokens_file, inflight>>
    ELSE IF username \notin DOMAIN user_data
    THEN Respond("login", 200, "User not found. Please register first.")
    ELSE IF user_data[username].password = None
    THEN Respond("login", 200, "This account has no password set. Please register again.")
    ELSE IF user_data[username].password # password
    THEN Respond("login", 200, "Incorrect password.")
    ELSE /\ user_data' = SetUser(user_data, username,
                                 [user_data[username] EXCEPT !.status = "Online",
                                                             !.is_logged_in = TRUE])
         /\ session' = login_user_session(session, username)
         /\ obs' = ObsOfRequest("login", 302, "dashboard")
         /\ UNCHANGED <<model, uploads, analytics_file, history, tokens_file, inflight>>

\* GET /logout, lines 412-425
Logout ==
    IF session.user = None THEN Respond("logout", 302, "index")
    ELSE /\ user_data' =
                IF session.user \in DOMAIN user_data
                THEN SetUser(user_data, session.user,
                             [user_data[session.user] EXCEPT !.status = "Offline",
                                                             !.is_logged_in = FALSE])
                ELSE user_data
         /\ session' = [session EXCEPT !.user = None]
         /\ obs' = ObsOfRequest("logout", 302, "index")
         /\ UNCHANGED <<model, uploads, analytics_file, history, tokens_file, inflight>>

RegisteredUsers ==
    [u \in {"alice"} |->
        [email |-> "a@x", password |-> "Alic3_pw!", status |-> "Offline",
         is_logged_in |-> FALSE, bio |-> None]]

\* emotion_analytics.json as the process finds it
StartAnalytics ==
    {AbsentFile, JsonArray,
     JsonObject([l \in {"neutral"} |-> NotNum]),
     JsonObject([l \in {"calm", "happy"} |-> IF l = "calm" THEN Num(1) ELSE Num(2)])}

Init ==
    /\ Startup
    /\ analytics_file \in StartAnalytics
    /\ user_data = RegisteredUsers

Requests ==
    \/ \E username \in {"", "alice", "bob"}, password \in {"", "Alic3_pw!", "admin123"} :
          Login(username, password)
    \/ Logout
    \/ DashboardGet
    \/ \E has_file \in BOOLEAN, filename \in RequestFilenames :
          /\ (~has_file => filename = EmptyFilename)
          /\ IF session.user # None /\ has_file /\ allowed_file(filename)
             THEN \E i \in HandlerInputs[filename] : DashboardPost(has_file, filename, i)
             ELSE DashboardPost(has_file, filename, QuietInput("wav"))
    \/ \E has_file \in BOOLEAN, filename \in RequestFilenames :
          /\ (~has_file => filename = EmptyFilename)
          /\ IF session.user # None /\ has_file /\ filename = EmptyFilename
             THEN \E i \in HandlerInputs[Filename("recording", "wav")] :
                     ApiAnalyze(has_file, filename, i)
             ELSE IF session.user # None /\ has_file /\ allowed_file(filename)
             THEN \E i \in HandlerInputs[filename] : ApiAnalyze(has_file, filename, i)
             ELSE ApiAnalyze(has_file, filename, QuietInput("wav"))

Next == Requests

Spec == Init /\ [][Next]_vars

(***************************************************************************)
(* SpecStartup: the web application as in Spec, with what the start-up met *)
(* kept in history.startup: whether load_model.crnn gave the class,        *)
(* whether ser_model.pth exists, whether building or loading the model     *)
(* raised.                                                                 *)
(***************************************************************************)
InitStartup ==
    /\ \E class_imported \in BOOLEAN, path_exists \in BOOLEAN, load_raises \in BOOLEAN :
          /\ model = load_model(class_imported, path_exists, load_raises)
          /\ history = [NoHistory EXCEPT !.startup =
                            [class_imported |-> class_imported, path_exists |-> path_exists,
                             load_raises |-> load_raises]]
    /\ uploads = <<>>
    /\ session = NoSession
    /\ tokens_file = <<>>
    /\ inflight = <<>>
    /\ obs = NoObs
    /\ analytics_file = AbsentFile
    /\ user_data = RegisteredUsers

NextStartup == Requests

SpecStartup == InitStartup /\ [][NextStartup]_vars

(***************************************************************************)
(* Accounts.  A password is a string of the model; Chars gives its         *)
(* characters, on which validate_password_strength works.  A user record   *)
(* holds None for a key it lacks.                                          *)
(***************************************************************************)
UpperCase ==
    {"A", "B", "C", "D", "E", "F", "G", "H", "I", "J", "K", "L", "M",
     "N", "O", "P", "Q", "R", "S", "T", "U", "V", "W", "X", "Y", "Z"}
LowerCase ==
    {"a", "b", "c", "d", "e", "f", "g", "h", "i", "j", "k", "l", "m",
     "n", "o", "p", "q", "r", "s", "t", "u", "v", "w", "x", "y", "z"}
Digits == {"0", "1", "2", "3", "4", "5", "6", "7", "8", "9"}

Chars(password) ==
    CASE password = "Alic3_pw!" -> <<"A", "l", "i", "c", "3", "_", "p", "w", "!">>
      [] password = "N3w_pass!" -> <<"N", "3", "w", "_", "p", "a", "s", "s", "!">>
      [] password = "Ab1!" -> <<"A", "b", "1", "!">>
      [] password = "alic3_pw!" -> <<"a", "l", "i", "c", "3", "_", "p", "w", "!">>
      [] password = "ALIC3_PW!" -> <<"A", "L", "I", "C", "3", "_", "P", "W", "!">>
      [] password = "Alice_pw!" -> <<"A", "l", "i", "c", "e", "_", "p", "w", "!">>
      [] password = "Alic3pw00" -> <<"A", "l", "i", "c", "3", "p", "w", "0", "0">>
      [] password = "admin123" -> <<"a", "d", "m", "i", "n", "1", "2", "3">>
      [] password = "" -> <<>>

\* re.search(r'[...]', password)
search(class, password) == \E i \in DOMAIN Chars(password) : Chars(password)[i] \in class

\* validate_password_strength, mutated: only the length is looked at
validate_length_only(password) ==
    IF Len(Chars(password)) < 8
    THEN [ok |-> FALSE, err |-> "Password must be at least 8 characters."]
    ELSE [ok |-> TRUE, err |-> None]

validate_password_strength(password) ==
    IF Len(Chars(password)) < 8
    THEN [ok |-> FALSE, err |-> "Password must be at least 8 characters."]
    ELSE IF ~search(UpperCase, password)
    THEN [ok |-> FALSE, err |-> "Password must include an uppercase letter."]
    ELSE IF ~search(LowerCase, password)
    THEN [ok |-> FALSE, err |-> "Password must include a lowercase letter."]
    ELSE IF ~search(Digits, password)
    THEN [ok |-> FALSE, err |-> "Password must include a number."]
    ELSE IF \A i \in DOMAIN Chars(password) :
                Chars(password)[i] \in UpperCase \cup LowerCase \cup Digits
    THEN [ok |-> FALSE, err |-> "Password must include a special character."]
    ELSE [ok |-> TRUE, err |-> None]

NewPasswords ==
    {"Alic3_pw!", "N3w_pass!", "Ab1!", "alic3_pw!", "ALIC3_PW!", "Alice_pw!", "Alic3pw00"}

\* the first user, in the order of users.items(), whose record has the
\* email; in the model no two users share an email
UserWithEmail(users, email) ==
    IF \E u \in DOMAIN users : users[u].email = email
    THEN CHOOSE u \in DOMAIN users : users[u].email = email
    ELSE None

\* tokens.pop(token, None), mutated: the token stays
keep_token(tokens, token) == tokens

\* tokens.pop(token, None)
pop_token(tokens, token) == [t \in (DOMAIN tokens) \ {token} |-> tokens[t]]

ObsOfAccount(op, username, password, token, status, page) ==
    [ObsOfRequest(op, status, page) EXCEPT
        !.username = username, !.password = password, !.token = token]

\* POST /admin/login, lines 492-503
AdminLogin(username, password) ==
    IF username # "" /\ password # "" /\ StripLower(username) = "admin"
         /\ password = "admin123"
    THEN /\ session' = login_admin_session(session)
         /\ obs' = ObsOfRequest("admin_login", 302, "admin_dashboard")
         /\ UNCHANGED <<model, uploads, analytics_file, user_data, tokens_file, inflight, history>>
    ELSE Respond("admin_login", 200, "Invalid admin credentials.")

\* GET /admin/logout, lines 505-508
AdminLogout ==
    /\ session' = [session EXCEPT !.admin = None]
    /\ obs' = ObsOfRequest("admin_logout", 302, "index")
    /\ UNCHANGED <<model, uploads, analytics_file, user_data, tokens_file, inflight, history>>

\* POST /register, lines 687-716
Register(username, email, password) ==
    /\ obs' = ObsOfAccount("register", username, password, None,
                  IF username # "" /\ email # "" /\ password # ""
                       /\ username \notin DOMAIN user_data
                       /\ validate_password_strength(password).ok
                  THEN 302 ELSE 200,
                  IF username = "" \/ email = "" \/ password = ""
                  THEN "Please fill out all fields."
                  ELSE IF username \in DOMAIN user_data
                  THEN "Username already exists. Please choose another."
                  ELSE IF ~validate_password_strength(password).ok
                  THEN validate_password_strength(password).err
                  ELSE "login")
    /\ user_data' =
          IF username # "" /\ email # "" /\ password # ""
               /\ username \notin DOMAIN user_data
               /\ validate_password_strength(password).ok
          THEN SetUser(user_data, username,
                       [email |-> email, password |-> password, status |-> "Offline",
                        is_logged_in |-> FALSE, bio |-> None])
          ELSE user_data
    /\ UNCHANGED <<model, uploads, analytics_file, session, tokens_file, inflight, history>>

\* POST /profile with new_password in the form, lines 242-254 and 265-274
ProfilePassword(new_pw) ==
    IF session.user = None THEN Respond("profile", 302, "login")
    ELSE /\ obs' = ObsOfAccount("profile", session.user, new_pw, None, 200,
                       IF ~validate_password_strength(new_pw).ok
                       THEN validate_password_strength(new_pw).err
                       ELSE IF session.user \in DOMAIN user_data
                       THEN "Password updated successfully."
                       ELSE "profile")
         /\ user_data' =
               IF validate_password_strength(new_pw).ok /\ session.user \in DOMAIN user_data
               THEN SetUser(user_data, session.user,
                            [user_data[session.user] EXCEPT !.password = new_pw])
               ELSE user_data
         /\ UNCHANGED <<model, uploads, analytics_file, session, tokens_file, inflight, history>>

\* POST /forgot-password, lines 718-752; sent is what
\* send_password_reset_email returns
ForgotPassword(email, sent) ==
    IF email = "" THEN Respond("forgot_password", 200, "Please enter your email.")
    ELSE IF UserWithEmail(user_data, email) = None
    THEN Respond("forgot_password", 200, "No account found with that email.")
    ELSE /\ history.issued < MaxTokens
         /\ tokens_file' = SetUser(tokens_file, history.issued + 1,
                                   [username |-> UserWithEmail(user_data, email),
                                    email |-> email])
         /\ history' = [history EXCEPT !.issued = @ + 1]
         /\ obs' = ObsOfAccount("forgot_password", UserWithEmail(user_data, email), None,
                                history.issued + 1, 200,
                                IF sent THEN "Password reset link sent to your email."
                                ELSE "Could not send email. Please try again later.")
         /\ UNCHANGED <<model, uploads, analytics_file, user_data, session, inflight>>

\* GET /reset-password/<token>, lines 754-763 and 779
ResetPasswordGet(token) ==
    /\ obs' = IF token \notin DOMAIN tokens_file
              THEN ObsOfAccount("reset_password_get", None, None, token, 400,
                                "Invalid or expired token.")
              ELSE ObsOfAccount("reset_password_get", None, None, token, 200,
                                "reset_password")
    /\ UNCHANGED <<model, uploads, analytics_file, user_data, session, tokens_file, inflight, history>>

\* POST /reset-password/<token>, lines 754-779
ResetPasswordPost(token, new_pw) ==
    IF token \notin DOMAIN tokens_file
    THEN /\ obs' = ObsOfAccount("reset_password_post", None, new_pw, token, 400,
                                "Invalid or expired token.")
         /\ UNCHANGED <<model, uploads, analytics_file, user_data, session, tokens_file, inflight, history>>
    ELSE IF ~validate_password_strength(new_pw).ok
    THEN /\ obs' = ObsOfAccount("reset_password_post", tokens_file[token].username, new_pw,
                                token, 200, validate_password_strength(new_pw).err)
         /\ UNCHANGED <<model, uploads, analytics_file, user_data, session, tokens_file, inflight, history>>
    ELSE IF tokens_file[token].username \notin DOMAIN user_data
    THEN /\ obs' = ObsOfAccount("reset_password_post", tokens_file[token].username, new_pw,
                                token, 200, "reset_password")
         /\ UNCHANGED <<model, uploads, analytics_file, user_data, session, tokens_file, inflight, history>>
    ELSE /\ user_data' = SetUser(user_data, tokens_file[token].username,
                                 [user_data[tokens_file[token].username] EXCEPT
                                     !.password = new_pw])
         /\ tokens_file' = pop_token(tokens_file, token)
         /\ history' = [history EXCEPT !.used =
                            SetUser(@, token, GetItem(@, token, 0) + 1)]
         /\ obs' = ObsOfAccount("reset_password_post", tokens_file[token].username, new_pw,
                                token, 302, "login")
         /\ UNCHANGED <<model, uploads, analytics_file, session, inflight>>

\* POST /admin/users/<username>, lines 624-638; a form field that is absent
\* is None
AdminUpdateUser(username, bio, status) ==
    IF session.admin = None THEN Respond("admin_update_user", 302, "login")
    ELSE LET user_info == IF username \in DOMAIN user_data THEN user_data[username]
                          ELSE [email |-> None, password |-> None, status |-> None,
                                is_logged_in |-> FALSE, bio |-> None]
             old_bio == IF user_info.bio = None THEN "" ELSE user_info.bio
             old_status == IF user_info.status = None THEN "Active" ELSE user_info.status
         IN  /\ user_data' = SetUser(user_data, username,
                                     [user_info EXCEPT
                                         !.bio = IF bio = None THEN old_bio ELSE bio,
                                         !.status = IF status = None THEN old_status
                                                    ELSE status])
             /\ obs' = ObsOfAccount("admin_update_user", username, None, None, 302,
                                    "admin_edit_user")
             /\ UNCHANGED <<model, uploads, analytics_file, session, tokens_file, inflight, history>>

(***************************************************************************)
(* SpecAccounts: the account routes, one session.                          *)
(***************************************************************************)
InitAccounts ==
    /\ Startup
    /\ analytics_file = AbsentFile
    /\ user_data = RegisteredUsers

\* The forms the model submits: every password of NewPasswords is tried at
\* /register, two good ones and a bad one at the other routes.
LoginForms ==
    {<<"alice", "Alic3_pw!">>, <<"alice", "N3w_pass!">>, <<" Admin ", "admin123">>}
AdminLoginForms == {<<" Admin ", "admin123">>, <<"", "admin123">>}
RegisterForms ==
    {<<"", "b@x", "Alic3_pw!">>, <<"alice", "b@x", "N3w_pass!">>}
    \cup {<<"bob", "b@x", password>> : password \in NewPasswords}
ProfileForms == {"Alic3_pw!", "N3w_pass!", "Alice_pw!"}
ForgotForms == {<<"", TRUE>>, <<"a@x", TRUE>>, <<"a@x", FALSE>>, <<"b@x", TRUE>>}
ResetForms == {"N3w_pass!", "Alic3pw00"}

NextAccounts ==
    \/ \E f \in LoginForms : Login(f[1], f[2])
    \/ Logout
    \/ \E f \in AdminLoginForms : AdminLogin(f[1], f[2])
    \/ AdminLogout
    \/ \E f \in RegisterForms : Register(f[1], f[2], f[3])
    \/ \E new_pw \in ProfileForms : ProfilePassword(new_pw)
    \/ \E f \in ForgotForms : ForgotPassword(f[1], f[2])
    \/ \E token \in 0..MaxTokens : ResetPasswordGet(token)
    \/ \E token \in 0..MaxTokens, new_pw \in ResetForms : ResetPasswordPost(token, new_pw)
    \/ \E username \in {"alice", "bob"} : AdminUpdateUser(username, None, None)

SpecAccounts == InitAccounts /\ [][NextAccounts]_vars

(***************************************************************************)
(* SpecRace: two requests inside update_emotion_analytics at once.  The     *)
(* server handles each request in a thread of its own and the function     *)
(* takes no lock, so the read at line 146 and the write at line 153 of one *)
(* request are two steps, and steps of the other can come between them.    *)
(* inflight[r] holds the locals of request r: where it is, the label it    *)
(* records and the emotion_counts it read.                                 *)
(***************************************************************************)
RequestIds == {"r1", "r2"}

RaceLabels == {EMOTION_LABELS[i] : i \in 1..MaxRaceLabels}

Reading == {r \in DOMAIN inflight : inflight[r].pc = "read"}

SetRequest(reqs, r, locals) ==
    [q \in (DOMAIN reqs) \cup {r} |-> IF q = r THEN locals ELSE reqs[q]]

\* emotion_counts at line 149, mutated: the file is read again at the write
reread_counts(emotion_counts, file) == read_json_safe(file, JsonObject(<<>>), FALSE)

\* emotion_counts at line 149: what line 146 returned, however old
counts_in_hand(emotion_counts, file) == emotion_counts

InitRace ==
    /\ Startup
    /\ analytics_file \in {AbsentFile, JsonObject(<<>>)}
    /\ user_data = <<>>

\* line 146
ReadCounts(r, emotion) ==
    /\ r \notin Reading
    /\ TotalCalls + Cardinality(Reading) < MaxRaceCalls
    /\ inflight' = SetRequest(inflight, r,
                        [pc |-> "read", emotion |-> emotion,
                         emotion_counts |-> read_json_safe(analytics_file, JsonObject(<<>>), FALSE)])
    /\ obs' = [NoObs EXCEPT !.op = "read_counts", !.request = r, !.label = emotion,
                            !.analytics_before = analytics_file]
    /\ UNCHANGED <<model, uploads, analytics_file, user_data, session, tokens_file, history>>

\* lines 149-153
WriteCounts(r) ==
    /\ r \in Reading
    /\ \E u \in {increment_and_write(analytics_file,
                       counts_in_hand(inflight[r].emotion_counts, analytics_file),
                       inflight[r].emotion, "ok")} :
          /\ analytics_file' = u.file
          /\ history' = Recorded(history, inflight[r].emotion, FALSE, "ok", u.raised)
          /\ obs' = [NoObs EXCEPT !.op = "write_counts", !.request = r,
                                  !.label = inflight[r].emotion, !.raised = u.raised,
                                  !.error = u.error, !.analytics_before = analytics_file]
    /\ inflight' = SetRequest(inflight, r, [inflight[r] EXCEPT !.pc = "done"])
    /\ UNCHANGED <<model, uploads, user_data, session, tokens_file>>

NextRace ==
    \/ \E r \in RequestIds, emotion \in RaceLabels : ReadCounts(r, emotion)
    \/ \E r \in RequestIds : WriteCounts(r)

SpecRace == InitRace /\ [][NextRace]_vars

(***************************************************************************)
(* Properties of one call (SpecCall).                                      *)
(***************************************************************************)
ExtractReturned == obs.x_called /\ ~obs.x_raised

\* C1: every successful extract_features call returns a matrix of exactly
\* 40 rows and 174 columns, whatever the natural frame count.
C1_ShapeIs40x174 ==
    ExtractReturned =>
        /\ DOMAIN obs.mfcc = 0..39
        /\ \A r \in DOMAIN obs.mfcc : DOMAIN obs.mfcc[r] = 0..173

C1_Witness_Truncated == ExtractReturned /\ obs.load.frames > 174

\* The natural matrix with its first 174 columns kept and zero frames after
\* them, written out for each waveform.
prefix_then_zeros ==
    [audio \in DecodedAudios |->
        [r \in 0..39 |->
            [c \in 0..173 |->
                IF c < audio.frames THEN natural_mfcc[audio][r][c] ELSE 0]]]

\* C2: with n natural frames, the result's columns 0..n-1 are the natural
\* columns and the columns from n on are zero when n < 174; the result is the
\* first 174 natural columns when n >= 174.
C2_PrefixKept == ExtractReturned => obs.mfcc = prefix_then_zeros[obs.load]

C2_Witness_Padded ==
    /\ ExtractReturned
    /\ obs.load.frames < 174
    /\ obs.load.shape # 0
    /\ obs.mfcc[0][obs.load.frames - 1] # 0
    /\ obs.mfcc[0][173] = 0

\* C3: a decoded clip of zero samples makes extract_features raise the
\* empty-audio error; no matrix is returned.
C3_EmptyAudioRaises ==
    (obs.x_called /\ obs.load # LoadError /\ obs.load.samples = 0) =>
        /\ obs.x_raised
        /\ obs.x_error = "EmptyAudio"
        /\ obs.mfcc = NoMatrix

C3_Witness_Empty ==
    obs.x_called /\ obs.load # LoadError /\ obs.load.samples = 0 /\ obs.x_raised

entry_sum == [m \in {final_mfcc[audio] : audio \in DecodedAudios} |-> SumAll(m)]
zero_matrix == [r \in 0..39 |-> [c \in 0..173 |-> 0]]

\* C4: without a model, the label analyze_saved_file returns for the matrix M
\* is EMOTION_LABELS[floor(|mean(M) * 100|) mod 8]: with S the sum of the
\* 40 * 174 entries, floor(|mean(M) * 100|) is the q with
\* q * 6960 <= |100 * S| < (q + 1) * 6960.  The all-zero matrix gives neutral.
C4_FallbackLabel ==
    (obs.op = "analyze_saved_file" /\ model = None /\ ~obs.raised) =>
        LET S == entry_sum[obs.mfcc]
            a == IF S < 0 THEN -(100 * S) ELSE 100 * S
            q == a \div (40 * 174)
        IN  /\ q * (40 * 174) <= a
            /\ a < (q + 1) * (40 * 174)
            /\ obs.emotion = EMOTION_LABELS[(q % 8) + 1]
            /\ (obs.mfcc = zero_matrix => obs.emotion = "neutral")

C4_Witness_NegativeMean ==
    /\ obs.op = "analyze_saved_file" /\ model = None /\ ~obs.raised
    /\ entry_sum[obs.mfcc] < 0
    /\ (100 * entry_sum[obs.mfcc]) % (40 * 174) # 0

\* C7: after extract_features on a webm, mp4 or ogg file, no _converted.wav
\* written by the call's conversion step remains in upload storage.
C7_NoIntermediateRemains ==
    (obs.x_called /\ NeedsConversion(FileExt(obs.path))
       /\ obs.conv \in {"export_raises_file", "ok"}) =>
        ~exists(uploads, ConvertedPath(obs.path))

\* C8: with no conversion capability, a file that needs conversion makes
\* extract_features fail with DecodeUnavailable; it never goes on with the
\* original file.
C8_NoPydubPropagates ==
    (obs.x_called /\ NeedsConversion(FileExt(obs.path)) /\ obs.conv = "no_pydub") =>
        /\ obs.x_raised
        /\ obs.x_error = "DecodeUnavailable"

(***************************************************************************)
(* Properties of the analytics recorder (SpecAnalytics).                   *)
(***************************************************************************)
\* C5: from an empty store, after calls made one after the other whose reads
\* and writes of the file all succeeded, each label called n > 0 times has
\* the entry n, and a label never recorded has no entry.
C5_CountsEqualCalls ==
    ~history.faulted =>
        \A l \in Labels :
            IF history.calls[l] = 0
            THEN l \notin DOMAIN analytics_file.map
            ELSE /\ analytics_file.kind = "object"
                 /\ l \in DOMAIN analytics_file.map
                 /\ analytics_file.map[l] = Num(history.calls[l])

C5_Witness_Happy3Sad1 ==
    /\ ~history.faulted
    /\ history.calls["happy"] = 3
    /\ history.calls["sad"] = 1
    /\ analytics_file = JsonObject([l \in {"happy", "sad"} |-> IF l = "happy" THEN Num(3) ELSE Num(1)])

(***************************************************************************)
(* Properties of the upload handlers (Spec).                               *)
(***************************************************************************)
HandlerAnalysed == obs.op \in {"dashboard_post", "api_analyze"} /\ obs.x_called

CounterOf(file) == IF file.kind = "object" THEN file.map ELSE <<>>

\* C6: a successful analyze_saved_file call of the fallback variant returns
\* one of the 8 labels, and when its read and its write of the analytics
\* file succeed the counter afterwards is the counter before with that
\* label's entry larger by 1 (1 when it was absent) and nothing else changed.
C6_OnlyReturnedLabelIncremented ==
    (HandlerAnalysed /\ model = None /\ ~obs.raised) =>
        /\ obs.emotion \in {"neutral", "calm", "happy", "sad", "angry", "fear",
                            "disgust", "surprise"}
        /\ (~obs.read_fault /\ obs.write = "ok") =>
              LET before == CounterOf(obs.analytics_before)
                  after == CounterOf(analytics_file)
                  old == IF obs.emotion \in DOMAIN before THEN before[obs.emotion].n ELSE 0
              IN  /\ analytics_file.kind = "object"
                  /\ DOMAIN after = (DOMAIN before) \cup {obs.emotion}
                  /\ after[obs.emotion] = Num(old + 1)
                  /\ \A l \in (DOMAIN after) \ {obs.emotion} : after[l] = before[l]

C6_Witness_HappyThird ==
    /\ HandlerAnalysed /\ model = None /\ ~obs.raised
    /\ ~obs.read_fault /\ obs.write = "ok"
    /\ obs.emotion = "happy"
    /\ obs.analytics_before.kind = "object"
    /\ analytics_file.map = [l \in {"calm", "happy"} |-> IF l = "calm" THEN Num(1) ELSE Num(3)]

\* C9: once the classifier has produced a label, no failure of the analytics
\* step makes analyze_saved_file fail: the label is returned.
C9_AnalyticsFailureNeverFails ==
    (HandlerAnalysed /\ obs.label # None) =>
        /\ ~obs.raised
        /\ obs.emotion = obs.label

\* C10: when extract_features fails, analyze_saved_file raises and returns no
\* label, the analytics file is as it was, and the handler leaves
\* session['last_emotion'] as it was and answers with an error.
C10_ExtractionFailurePropagates ==
    (HandlerAnalysed /\ obs.x_raised) =>
        /\ obs.raised
        /\ obs.emotion = None
        /\ obs.label = None
        /\ analytics_file = obs.analytics_before
        /\ session.last_emotion = obs.session_before.last_emotion
        /\ obs.page = "error"

C10_Witness_EmptyAfterSuccess ==
    /\ HandlerAnalysed /\ obs.x_raised
    /\ obs.x_error = "EmptyAudio"
    /\ session.last_emotion = "happy"
    /\ analytics_file.kind = "object"
\* An authenticated upload request that carries a file part.
UploadRequest ==
    /\ obs.op \in {"dashboard_post", "api_analyze"}
    /\ obs.session_before.user # None
    /\ obs.has_file

\* The filename has no '.', or what follows its last '.' is, in lower case,
\* none of the seven accepted extensions.
NotAccepted(filename) ==
    \/ ~filename.has_dot
    \/ Lower(filename.ext) \notin {"wav", "mp3", "ogg", "flac", "webm", "m4a", "mp4"}

NotAnalysed ==
    /\ ~obs.x_called
    /\ uploads = obs.uploads_before
    /\ analytics_file = obs.analytics_before

\* C12 as stated: for every upload whose filename is not accepted,
\* analyze_saved_file is not invoked, no file is written, no counter changes
\* and the answer is an error about the file (the invalid-file-type error;
\* /dashboard's "No selected file" for a filename that is empty is counted
\* as one).
C12_NotAcceptedNeverAnalysed ==
    (UploadRequest /\ NotAccepted(obs.filename)) =>
        /\ NotAnalysed
        /\ obs.page \in {"Invalid file type", "No selected file"}

\* C12, amended: for every upload whose filename is not empty and not
\* accepted, analyze_saved_file is not invoked, no file is written, no
\* counter changes and the answer is the invalid-file-type error.  (An empty
\* filename is analysed as recording.wav by /api/analyze.)
C12_NamedNotAcceptedNeverAnalysed ==
    (UploadRequest /\ obs.filename # EmptyFilename /\ NotAccepted(obs.filename)) =>
        /\ NotAnalysed
        /\ obs.page = "Invalid file type"

C12_Witness_TxtTurnedAway ==
    /\ UploadRequest
    /\ obs.op = "api_analyze"
    /\ obs.filename = Filename("rec", "TXT")
    /\ obs.status = 400
    /\ DOMAIN uploads # {}

\* C13: when the classification of an authenticated upload fails, whether in
\* extraction or in the analytics step, the handler answers: /dashboard with
\* its page carrying the error, /api/analyze with a JSON error and status
\* 500; the exception never leaves the handler.
C13_FailureAnswered ==
    (UploadRequest /\ obs.x_called /\ obs.raised) =>
        /\ obs.page = "error"
        /\ obs.op = "dashboard_post" => obs.status = 200
        /\ obs.op = "api_analyze" => obs.status = 500

C13_Witness_Api500 ==
    /\ UploadRequest /\ obs.x_called /\ obs.raised
    /\ obs.op = "api_analyze"
    /\ obs.error = "AttributeError"
    /\ obs.status = 500

(***************************************************************************)
(* Properties of the start-up (SpecStartup).                               *)
(***************************************************************************)
ModelChosen ==
    /\ history.startup.class_imported
    /\ history.startup.path_exists
    /\ ~history.startup.load_raises

\* C14: at every moment after start-up the variant is the one chosen at
\* start-up: the model exactly when the class was importable, the artifact
\* file existed and loading did not raise, the fallback otherwise; and every
\* upload is labelled by that variant: by the network's arg-max when the
\* model was chosen, by the fallback rule otherwise.
C14_VariantFixedAtStartup ==
    /\ (model # None) <=> ModelChosen
    /\ (UploadRequest /\ obs.x_called /\ obs.label # None) =>
          obs.label = IF ModelChosen
                      THEN EMOTION_LABELS[obs.pred + 1]
                      ELSE fallback_emotion[final_mfcc[obs.load]]

C14_Witness_FileAbsentFallback ==
    /\ history.startup.class_imported
    /\ ~history.startup.path_exists
    /\ ~history.startup.load_raises
    /\ model = None
    /\ UploadRequest /\ obs.x_called
    /\ obs.load.shape # 0
    /\ obs.emotion # None

(***************************************************************************)
(* Properties of the account routes (SpecAccounts).                        *)
(***************************************************************************)
\* C15: the session never holds 'user' and 'admin' together; after a
\* successful user login it holds 'user' and not 'admin', after a successful
\* admin login, through /login or /admin/login, 'admin' and not 'user'.
C15_NeverUserAndAdmin ==
    /\ ~(session.user # None /\ session.admin # None)
    /\ (obs.op = "login" /\ obs.page = "dashboard") =>
          session.user # None /\ session.admin = None
    /\ (obs.op \in {"login", "admin_login"} /\ obs.page = "admin_dashboard") =>
          session.user = None /\ session.admin = "admin"

C15_Witness_UserAfterAdmin ==
    /\ obs.op = "login" /\ obs.page = "dashboard"
    /\ obs.session_before.admin = "admin"
    /\ session.user = "alice"

\* At least 8 characters, among them an uppercase letter, a lowercase
\* letter, a digit and a character that is none of these.
StrongPassword(password) ==
    LET cs == Chars(password) IN
    /\ Len(cs) >= 8
    /\ \E i \in DOMAIN cs : cs[i] \in UpperCase
    /\ \E i \in DOMAIN cs : cs[i] \in LowerCase
    /\ \E i \in DOMAIN cs : cs[i] \in Digits
    /\ \E i \in DOMAIN cs : cs[i] \notin UpperCase \cup LowerCase \cup Digits

ResetRequest == obs.op \in {"reset_password_get", "reset_password_post"}

\* C16: a token changes a password at most once and is out of the token
\* store once it has; every later request with it is answered "Invalid or
\* expired token." with 400 and changes no user record; a POST with a valid
\* token and a password that fails validation changes neither the user
\* records nor the token store.
C16_TokenSingleUse ==
    /\ \A t \in DOMAIN history.used :
          history.used[t] <= 1 /\ t \notin DOMAIN tokens_file
    /\ (ResetRequest /\ obs.token \in DOMAIN history.used /\ obs.status # 302) =>
          /\ obs.status = 400
          /\ obs.page = "Invalid or expired token."
          /\ user_data = obs.users_before
    /\ (obs.op = "reset_password_post" /\ obs.token \in DOMAIN obs.tokens_before
           /\ ~StrongPassword(obs.password)) =>
          /\ user_data = obs.users_before
          /\ tokens_file = obs.tokens_before

C16_Witness_SecondPostRefused ==
    /\ obs.op = "reset_password_post"
    /\ obs.token \in DOMAIN history.used
    /\ StrongPassword(obs.password)
    /\ obs.status = 400
    /\ user_data["alice"].password = "N3w_pass!"

\* C17: every password stored in a user record is strong; a /register,
\* /profile or /reset-password request whose new password is not strong
\* leaves the user records as they were; /register with the name of an
\* existing user leaves the user records as they were.
C17_StoredPasswordsStrong ==
    /\ \A u \in DOMAIN user_data :
          user_data[u].password # None => StrongPassword(user_data[u].password)
    /\ (obs.op \in {"register", "profile", "reset_password_post"} /\ obs.password # None
           /\ ~StrongPassword(obs.password)) =>
          user_data = obs.users_before
    /\ (obs.op = "register" /\ obs.username \in DOMAIN obs.users_before) =>
          user_data = obs.users_before

C17_Witness_WeakRegistrationRefused ==
    /\ obs.op = "register"
    /\ obs.username = "bob"
    /\ obs.password = "Alic3pw00"
    /\ obs.page = "Password must include a special character."
    /\ "bob" \notin DOMAIN user_data
    /\ user_data["alice"].password = "N3w_pass!"

(***************************************************************************)
(* Properties of concurrent recording (SpecRace).                          *)
(***************************************************************************)
TotalOf(file) ==
    LET counts == CounterOf(file)
        n == [i \in 1..Len(EMOTION_LABELS) |->
                IF EMOTION_LABELS[i] \in DOMAIN counts THEN counts[EMOTION_LABELS[i]].n ELSE 0]
    IN  SumRange(n, 1, Len(EMOTION_LABELS))

\* C11: last write wins.  Right after a request's write, the stored mapping
\* is the mapping that request read, with its own label's entry larger by 1
\* (1 when absent), whatever other requests wrote in between; the witness is
\* the interleaving in which two completed calls raise the total by only 1.
C11_LastWriteWins ==
    obs.op = "write_counts" =>
        LET mine == inflight[obs.request]
            seen == mine.emotion_counts.map
            old == IF mine.emotion \in DOMAIN seen THEN seen[mine.emotion].n ELSE 0
        IN  /\ analytics_file.kind = "object"
            /\ analytics_file.map =
                  [l \in (DOMAIN seen) \cup {mine.emotion} |->
                      IF l = mine.emotion THEN Num(old + 1) ELSE seen[l]]

C11_Witness_LostUpdate ==
    /\ \A r \in RequestIds : r \in DOMAIN inflight /\ inflight[r].pc = "done"
    /\ TotalCalls = 2
    /\ TotalOf(analytics_file) = 1
====
